---- MODULE Spec2Model ----
(***************************************************************************)
(* Model of the fixture pipeline of data_processor/db_reader.py: the       *)
(* allow-list loaded at import, the query of get_fixtures, its             *)
(* normalization loop, the two groupings and save_fixtures_to_json.        *)
(*                                                                         *)
(* Python and SQLite values are tagged records, so that None, integers,    *)
(* text and bytes stay distinct.  Text is a sequence of characters, each   *)
(* character a one-character string (a CJK character is written as its     *)
(* "U+XXXX" token), ordered by code point as Python's str comparison and   *)
(* SQLite's BINARY collation order it.                                     *)
(***************************************************************************)
EXTENDS Integers, Sequences, FiniteSets, TLC

VARIABLES
    db,                 \* stored fixtures, each already joined with its league and teams
    today,              \* datetime.now(timezone.utc).date()
    days_ahead,         \* the argument of get_fixtures
    local_utcoffset,    \* UTC offset (minutes) of the process's local time zone
    TARGET_LEAGUE_IDS,  \* the allow-list, set when db_reader is imported
    pc,                 \* "import" before db_reader is imported, "ready" after
    rows,               \* cursor.fetchall() of the last get_fixtures call
    fixtures,           \* outcome of get_fixtures
    leagues,            \* outcome of get_fixtures_by_league(fixtures)
    dates,              \* outcome of get_fixtures_by_date(fixtures)
    document,           \* outcome of save_fixtures_to_json(fixtures, path)
    rerun,              \* a later run of the loop on the same rows: its zone and outcome
    import_error,       \* the exception the import of league_manager ended with, or "none"
    storage,            \* "ok", or why fixtures.db cannot be used
    site,               \* outcome of HTMLBuilder.generate_all(days_ahead)
    queries             \* how many times cursor.execute has run the query

vars == <<db, today, days_ahead, local_utcoffset, TARGET_LEAGUE_IDS, pc, rows,
          fixtures, leagues, dates, document, rerun, import_error, storage, site,
          queries>>

----------------------------------------------------------------------------
(* Python / SQLite values *)

None == [t |-> "None"]
PyInt(n) == [t |-> "int", n |-> n]
PyStr(s) == [t |-> "str", s |-> s]
PyBytes(b) == [t |-> "bytes", b |-> b]
PyBool(b) == [t |-> "bool", v |-> b]
PyList(elems) == [t |-> "list", elems |-> elems]
\* a dict keeps its items in insertion order: a sequence of <<key, value>>
PyDict(items) == [t |-> "dict", items |-> items]

IsNone(v) == v.t = "None"
IsInt(v) == v.t = "int"
IsStr(v) == v.t = "str"

\* Python truth value, as `if x` and `not x` take it
Truthy(v) ==
    CASE v.t = "None" -> FALSE
      [] v.t = "int" -> v.n # 0
      [] v.t = "str" -> Len(v.s) > 0
      [] v.t = "bytes" -> Len(v.b) > 0
      [] v.t = "bool" -> v.v
      [] v.t = "list" -> Len(v.elems) > 0
      [] v.t = "dict" -> Len(v.items) > 0

\* outcome of a call: not yet called, returned a value, or raised
NotCalled == [st |-> "not called"]
Returned(v) == [st |-> "returned", v |-> v]
Raised(e) == [st |-> "raised", exc |-> e]

\* dict.get(key, default): the default is taken only when the key is absent
Get(d, key, default) == IF key \in DOMAIN d THEN d[key] ELSE default

\* d[key] = value on a dict modelled as a function
Put(d, key, value) == (key :> value) @@ d

----------------------------------------------------------------------------
(* Characters and text *)

DigitChars == <<"0", "1", "2", "3", "4", "5", "6", "7", "8", "9">>

IsDigit(c) == \E i \in 1..10 : DigitChars[i] = c

DigitValue(c) == (CHOOSE i \in 1..10 : DigitChars[i] = c) - 1

\* code point of a character
Ord(c) ==
    CASE c = " " -> 32   [] c = "\"" -> 34  [] c = "+" -> 43   [] c = "," -> 44
      [] c = "-" -> 45   [] c = "." -> 46   [] c = "/" -> 47   [] c = ":" -> 58
      [] IsDigit(c) -> 48 + DigitValue(c)
      [] c = "A" -> 65   [] c = "B" -> 66   [] c = "T" -> 84   [] c = "Z" -> 90
      [] c = "[" -> 91   [] c = "]" -> 93   [] c = "a" -> 97   [] c = "b" -> 98
      [] c = "c" -> 99   [] c = "d" -> 100  [] c = "e" -> 101  [] c = "n" -> 110
      [] c = "o" -> 111  [] c = "t" -> 116  [] c = "x" -> 120  [] c = "{" -> 123
      [] c = "}" -> 125
      [] c = "U+4E3B" -> 20027  [] c = "U+5BA2" -> 23458  [] c = "U+65E5" -> 26085
      [] c = "U+671F" -> 26399  [] c = "U+672A" -> 26410  [] c = "U+77E5" -> 30693
      [] c = "U+806F" -> 32879  [] c = "U+8CFD" -> 36093  [] c = "U+968A" -> 38538

\* a < b for two texts: Python's str order and SQLite's BINARY collation
StrLess(a, b) ==
    \E i \in 1..Len(b) :
        /\ \A j \in 1..(i - 1) : j <= Len(a) /\ a[j] = b[j]
        /\ (i > Len(a) \/ Ord(a[i]) < Ord(b[i]))

StrLessEq(a, b) == a = b \/ StrLess(a, b)

\* text.replace(ch, by) for a one-character ch
RECURSIVE Replace(_, _, _)
Replace(s, ch, by) ==
    IF s = <<>> THEN <<>>
    ELSE (IF Head(s) = ch THEN by ELSE <<Head(s)>>) \o Replace(Tail(s), ch, by)

AllDigits(s) == \A i \in 1..Len(s) : IsDigit(s[i])

\* value of a text of decimal digits
RECURSIVE DigitsValue(_)
DigitsValue(s) ==
    IF s = <<>> THEN 0
    ELSE 10 * DigitsValue(SubSeq(s, 1, Len(s) - 1)) + DigitValue(s[Len(s)])

Pad2(n) == <<DigitChars[((n \div 10) % 10) + 1], DigitChars[(n % 10) + 1]>>

Pad4(n) == Pad2(n \div 100) \o Pad2(n % 100)

\* text.strip() for the one white-space character of the model
RECURSIVE LStrip(_)
LStrip(s) == IF s # <<>> /\ Head(s) = " " THEN LStrip(Tail(s)) ELSE s

RECURSIVE RStrip(_)
RStrip(s) ==
    IF s # <<>> /\ s[Len(s)] = " " THEN RStrip(SubSeq(s, 1, Len(s) - 1)) ELSE s

\* int(x) of Python: an int is itself; text is stripped, may carry one sign,
\* and must then be decimal digits; anything else raises ValueError
ToInt(v) ==
    IF IsInt(v) THEN [ok |-> TRUE, n |-> v.n]
    ELSE IF IsStr(v) THEN
        LET s == RStrip(LStrip(v.s))
            signed == s # <<>> /\ Head(s) \in {"+", "-"}
            body == IF signed THEN Tail(s) ELSE s
        IN IF body # <<>> /\ AllDigits(body)
           THEN [ok |-> TRUE,
                 n |-> IF signed /\ Head(s) = "-" THEN 0 - DigitsValue(body)
                       ELSE DigitsValue(body)]
           ELSE [ok |-> FALSE, exc |-> "ValueError"]
    ELSE [ok |-> FALSE, exc |-> "TypeError"]

----------------------------------------------------------------------------
(* Calendar dates, datetime.fromisoformat, strftime, astimezone *)

IsLeap(y) == (y % 4 = 0 /\ y % 100 # 0) \/ y % 400 = 0

DaysInMonth(y, m) ==
    IF m = 2 THEN (IF IsLeap(y) THEN 29 ELSE 28)
    ELSE IF m \in {4, 6, 9, 11} THEN 30 ELSE 31

Date(y, m, d) == [y |-> y, m |-> m, d |-> d]

NextDay(dt) ==
    IF dt.d < DaysInMonth(dt.y, dt.m) THEN Date(dt.y, dt.m, dt.d + 1)
    ELSE IF dt.m < 12 THEN Date(dt.y, dt.m + 1, 1)
    ELSE Date(dt.y + 1, 1, 1)

PrevDay(dt) ==
    IF dt.d > 1 THEN Date(dt.y, dt.m, dt.d - 1)
    ELSE IF dt.m > 1 THEN Date(dt.y, dt.m - 1, DaysInMonth(dt.y, dt.m - 1))
    ELSE Date(dt.y - 1, 12, 31)

\* date + timedelta(days=k)
RECURSIVE AddDays(_, _)
AddDays(dt, k) ==
    IF k = 0 THEN dt
    ELSE IF k > 0 THEN AddDays(NextDay(dt), k - 1)
    ELSE AddDays(PrevDay(dt), k + 1)

\* date.isoformat() and strftime('%Y-%m-%d')
DateIso(dt) == Pad4(dt.y) \o <<"-">> \o Pad2(dt.m) \o <<"-">> \o Pad2(dt.d)

DateLessEq(a, b) ==
    \/ a.y < b.y
    \/ a.y = b.y /\ a.m < b.m
    \/ a.y = b.y /\ a.m = b.m /\ a.d <= b.d

ParseFailed == [ok |-> FALSE]

\* the YYYY-MM-DD that starts an ISO text; the datetime constructor then
\* refuses a year, month or day out of range
ParseIsoDate(s) ==
    IF /\ Len(s) >= 10
       /\ AllDigits(SubSeq(s, 1, 4)) /\ s[5] = "-"
       /\ AllDigits(SubSeq(s, 6, 7)) /\ s[8] = "-"
       /\ AllDigits(SubSeq(s, 9, 10))
    THEN LET y == DigitsValue(SubSeq(s, 1, 4))
             m == DigitsValue(SubSeq(s, 6, 7))
             d == DigitsValue(SubSeq(s, 9, 10))
         IN IF y >= 1 /\ m \in 1..12 /\ d >= 1 /\ d <= DaysInMonth(y, m)
            THEN [ok |-> TRUE, date |-> Date(y, m, d)]
            ELSE ParseFailed
    ELSE ParseFailed

\* HH, HH:MM or HH:MM:SS (fractions of a second are outside the model)
ParseHMS(s) ==
    IF /\ Len(s) \in {2, 5, 8}
       /\ AllDigits(SubSeq(s, 1, 2))
       /\ Len(s) >= 5 => (s[3] = ":" /\ AllDigits(SubSeq(s, 4, 5)))
       /\ Len(s) >= 8 => (s[6] = ":" /\ AllDigits(SubSeq(s, 7, 8)))
    THEN [ok |-> TRUE,
          h |-> DigitsValue(SubSeq(s, 1, 2)),
          mi |-> IF Len(s) >= 5 THEN DigitsValue(SubSeq(s, 4, 5)) ELSE 0,
          sec |-> IF Len(s) >= 8 THEN DigitsValue(SubSeq(s, 7, 8)) ELSE 0]
    ELSE ParseFailed

\* position of the first + or - of s, Len(s) + 1 when it has none
SignPos(s) ==
    IF \E i \in 1..Len(s) : s[i] \in {"+", "-"}
    THEN CHOOSE i \in 1..Len(s) :
            /\ s[i] \in {"+", "-"}
            /\ \A j \in 1..(i - 1) : s[j] \notin {"+", "-"}
    ELSE Len(s) + 1

\* datetime.fromisoformat(s): YYYY-MM-DD[*HH[:MM[:SS]][+HH:MM]], where * is
\* any one character.  aware tells whether the text carried a UTC offset,
\* off is that offset in minutes.
FromIsoFormat(s) ==
    LET d == ParseIsoDate(s)
    IN IF ~d.ok THEN ParseFailed
       ELSE IF Len(s) = 10
       THEN [ok |-> TRUE, date |-> d.date, h |-> 0, mi |-> 0,
             aware |-> FALSE, off |-> 0]
       ELSE
         LET tstr == SubSeq(s, 12, Len(s))
             p == SignPos(tstr)
             hms == ParseHMS(SubSeq(tstr, 1, p - 1))
             tz == SubSeq(tstr, p, Len(tstr))
             tzhm == IF Len(tz) = 6 THEN ParseHMS(SubSeq(tz, 2, 6)) ELSE ParseFailed
         IN IF ~hms.ok \/ hms.h > 23 \/ hms.mi > 59 \/ hms.sec > 59
            THEN ParseFailed
            ELSE IF tz = <<>>
            THEN [ok |-> TRUE, date |-> d.date, h |-> hms.h, mi |-> hms.mi,
                  aware |-> FALSE, off |-> 0]
            ELSE IF ~tzhm.ok \/ tzhm.h > 23 \/ tzhm.mi > 59
            THEN ParseFailed
            ELSE [ok |-> TRUE, date |-> d.date, h |-> hms.h, mi |-> hms.mi,
                  aware |-> TRUE,
                  off |-> (IF tz[1] = "-" THEN 0 - 1 ELSE 1)
                            * (tzhm.h * 60 + tzhm.mi)]

\* dt.strftime('%Y-%m-%d'): the date the text states, in the text's own offset
StrfDate(dt) == DateIso(dt.date)

\* dt.strftime('%H:%M')
StrfTime(dt) == Pad2(dt.h) \o <<":">> \o Pad2(dt.mi)

\* dt.astimezone(): an aware datetime moves to the local offset, a naive one
\* is taken to be local time already
AsTimezone(dt, local) ==
    IF ~dt.aware THEN dt
    ELSE LET total == dt.h * 60 + dt.mi - dt.off + local
         IN [dt EXCEPT !.date = AddDays(dt.date, total \div 1440),
                       !.h = (total % 1440) \div 60,
                       !.mi = total % 60,
                       !.off = local]

\* dt.strftime('%Y-%m-%d %H:%M')
StrfDateTime(dt) == StrfDate(dt) \o <<" ">> \o StrfTime(dt)

----------------------------------------------------------------------------
(* json.loads and json.dump *)

\* The JSON texts of the model are objects, arrays, strings without escapes,
\* integers and the literals true, false and null, separated by blanks.

RECURSIVE SkipWs(_, _)
SkipWs(s, i) == IF i <= Len(s) /\ s[i] = " " THEN SkipWs(s, i + 1) ELSE i

JsonFail == [ok |-> FALSE]
JsonOk(v, next) == [ok |-> TRUE, v |-> v, next |-> next]

\* s[i..] starts with the characters of word
StartsWith(s, i, word) ==
    /\ i + Len(word) - 1 <= Len(s)
    /\ \A k \in 1..Len(word) : s[i + k - 1] = word[k]

\* a string whose opening quote is s[i]
JsonString(s, i) ==
    IF \E j \in (i + 1)..Len(s) : s[j] = "\""
    THEN LET j == CHOOSE j \in (i + 1)..Len(s) :
                    s[j] = "\"" /\ \A k \in (i + 1)..(j - 1) : s[k] # "\""
         IN JsonOk(PyStr(SubSeq(s, i + 1, j - 1)), j + 1)
    ELSE JsonFail

\* end of the run of digits that starts at s[i]
RECURSIVE DigitsEnd(_, _)
DigitsEnd(s, i) == IF i <= Len(s) /\ IsDigit(s[i]) THEN DigitsEnd(s, i + 1) ELSE i

\* an integer: an optional minus, then 0 or a run of digits not led by 0
JsonNumber(s, i) ==
    LET from == IF s[i] = "-" THEN i + 1 ELSE i
        to == DigitsEnd(s, from)
    IN IF to = from \/ (s[from] = "0" /\ to > from + 1) THEN JsonFail
       ELSE JsonOk(PyInt((IF from > i THEN 0 - 1 ELSE 1)
                            * DigitsValue(SubSeq(s, from, to - 1))), to)

\* d[key] = value on an insertion-ordered dict: a key already present keeps
\* its place and takes the new value
RECURSIVE DictSet(_, _, _)
DictSet(items, key, value) ==
    IF items = <<>> THEN << <<key, value>> >>
    ELSE IF Head(items)[1] = key THEN << <<key, value>> >> \o Tail(items)
    ELSE <<Head(items)>> \o DictSet(Tail(items), key, value)

RECURSIVE JsonValue(_, _)
RECURSIVE JsonMembers(_, _, _)
RECURSIVE JsonElements(_, _, _)

\* the members of an object from s[i] on, the opening brace and the members
\* in acc already read
JsonMembers(s, i, acc) ==
    LET k == SkipWs(s, i)
    IN IF k > Len(s) \/ s[k] # "\"" THEN JsonFail
       ELSE LET key == JsonString(s, k)
                c == IF key.ok THEN SkipWs(s, key.next) ELSE 0
            IN IF ~key.ok \/ c > Len(s) \/ s[c] # ":" THEN JsonFail
               ELSE LET val == JsonValue(s, c + 1)
                        e == IF val.ok THEN SkipWs(s, val.next) ELSE 0
                    IN IF ~val.ok \/ e > Len(s) THEN JsonFail
                       ELSE IF s[e] = ","
                       THEN JsonMembers(s, e + 1, DictSet(acc, key.v, val.v))
                       ELSE IF s[e] = "}"
                       THEN JsonOk(PyDict(DictSet(acc, key.v, val.v)), e + 1)
                       ELSE JsonFail

\* the elements of an array from s[i] on
JsonElements(s, i, acc) ==
    LET val == JsonValue(s, i)
        e == IF val.ok THEN SkipWs(s, val.next) ELSE 0
    IN IF ~val.ok \/ e > Len(s) THEN JsonFail
       ELSE IF s[e] = "," THEN JsonElements(s, e + 1, Append(acc, val.v))
       ELSE IF s[e] = "]" THEN JsonOk(PyList(Append(acc, val.v)), e + 1)
       ELSE JsonFail

\* the JSON value that starts at or after s[i]
JsonValue(s, i) ==
    LET j == SkipWs(s, i)
    IN IF j > Len(s) THEN JsonFail
       ELSE IF s[j] = "{"
       THEN LET k == SkipWs(s, j + 1)
            IN IF k <= Len(s) /\ s[k] = "}" THEN JsonOk(PyDict(<<>>), k + 1)
               ELSE JsonMembers(s, j + 1, <<>>)
       ELSE IF s[j] = "["
       THEN LET k == SkipWs(s, j + 1)
            IN IF k <= Len(s) /\ s[k] = "]" THEN JsonOk(PyList(<<>>), k + 1)
               ELSE JsonElements(s, j + 1, <<>>)
       ELSE IF s[j] = "\"" THEN JsonString(s, j)
       ELSE IF s[j] = "-" \/ IsDigit(s[j]) THEN JsonNumber(s, j)
       ELSE IF StartsWith(s, j, <<"t", "r", "u", "e">>)
       THEN JsonOk(PyBool(TRUE), j + 4)
       ELSE IF StartsWith(s, j, <<"f", "a", "l", "s", "e">>)
       THEN JsonOk(PyBool(FALSE), j + 5)
       ELSE IF StartsWith(s, j, <<"n", "u", "l", "l">>)
       THEN JsonOk(None, j + 4)
       ELSE JsonFail

\* json.loads(text): one value, then nothing but blanks; anything else raises
JsonLoads(s) ==
    LET r == JsonValue(s, 1)
    IN IF r.ok /\ SkipWs(s, r.next) > Len(s) THEN JsonOk(r.v, r.next) ELSE JsonFail

\* json.dump writes None, bool, int, str, list and dict (with str keys) and
\* raises TypeError on anything else, such as bytes
RECURSIVE JsonSerializable(_)
JsonSerializable(v) ==
    CASE v.t \in {"None", "int", "str", "bool"} -> TRUE
      [] v.t = "list" -> \A i \in 1..Len(v.elems) : JsonSerializable(v.elems[i])
      [] v.t = "dict" -> \A i \in 1..Len(v.items) :
                            /\ v.items[i][1].t = "str"
                            /\ JsonSerializable(v.items[i][2])
      [] OTHER -> FALSE

----------------------------------------------------------------------------
(* The allow-list (db_reader.py, lines 18-57) *)

\* the built-in identifiers used when league_manager cannot be imported
DefaultLeagueIds == 39..500

\* key sets that LEAGUE_ID_TO_TRADITIONAL_CHINESE of league_manager may hold
ExternalMappingKeys == {{39, 61}, {-1, 0, 39, 61}}

\* what the import of a league_manager that is there but broken raises
UncaughtImportErrors == {"SyntaxError", "AttributeError"}

----------------------------------------------------------------------------
(* The query of get_fixtures (lines 91-138) *)

StatusNS == <<"N", "S">>
StatusFT == <<"F", "T">>

\* status_short IN (...)
AcceptedStatuses ==
    {StatusNS, <<"1", "H">>, <<"H", "T">>, <<"2", "H">>, <<"E", "T">>,
     <<"B", "T">>, <<"P">>, <<"S", "U", "S", "P">>, <<"I", "N", "T">>,
     <<"A", "B", "D">>, <<"A", "W", "D">>, <<"W", "O">>}

\* the WHERE clause: a NULL event_date or status compares as unknown and
\* drops the row; text compares with text under the BINARY collation
Selected(r, lo, hi) ==
    /\ IsStr(r.event_date)
    /\ StrLessEq(lo, r.event_date.s)
    /\ StrLessEq(r.event_date.s, hi)
    /\ IsStr(r.status_short)
    /\ r.status_short.s \in AcceptedStatuses

\* ORDER BY f.event_date, f.event_timestamp: NULL sorts before any number
OrderedBefore(a, b) ==
    \/ StrLess(a.event_date.s, b.event_date.s)
    \/ /\ a.event_date = b.event_date
       /\ \/ IsNone(a.event_timestamp)
          \/ /\ IsInt(a.event_timestamp) /\ IsInt(b.event_timestamp)
             /\ a.event_timestamp.n <= b.event_timestamp.n

\* every order in which the query may return the selected rows: rows that
\* tie on both sort keys come in an order SQLite does not fix
QueryResults(table, day, ahead) ==
    LET lo == DateIso(day)
        hi == DateIso(AddDays(day, ahead))
        sel == {r \in table : Selected(r, lo, hi)}
        n == Cardinality(sel)
    IN {q \in [1..n -> sel] :
            /\ \A i, j \in 1..n : i # j => q[i] # q[j]
            /\ \A i \in 1..(n - 1) : OrderedBefore(q[i], q[i + 1])}

----------------------------------------------------------------------------
(* The normalization loop of get_fixtures (lines 143-173) *)

\* '未知聯賽', '未知主隊', '未知客隊', '未知日期'
UnknownLeague == <<"U+672A", "U+77E5", "U+806F", "U+8CFD">>
UnknownHome == <<"U+672A", "U+77E5", "U+4E3B", "U+968A">>
UnknownAway == <<"U+672A", "U+77E5", "U+5BA2", "U+968A">>
UnknownDate == <<"U+672A", "U+77E5", "U+65E5", "U+671F">>

MidnightText == <<"0", "0", ":", "0", "0">>
UtcSuffix == <<"+", "0", "0", ":", "0", "0">>

\* if not fixture.get(tc): fixture[tc] = fixture.get(en, placeholder)
ResolveName(f, tc, en, placeholder) ==
    IF ~Truthy(Get(f, tc, None)) THEN Put(f, tc, Get(f, en, PyStr(placeholder)))
    ELSE f

\* lines 150-158: the three display names
ResolveNames(f) ==
    ResolveName(
        ResolveName(
            ResolveName(f, "league_name_tc", "league_name_en", UnknownLeague),
            "home_team_name_tc", "home_team_name_en", UnknownHome),
        "away_team_name_tc", "away_team_name_en", UnknownAway)

\* an except branch that sets nothing
DegradedDateFieldsOmitted(f, event_date) == f

\* lines 168-171: the except branch
DegradedDateFields(f, event_date) ==
    Put(Put(Put(f, "event_date_formatted", event_date),
            "event_time_formatted", PyStr(MidnightText)),
        "event_datetime_local", event_date)

\* lines 160-171: the derived date fields; a value that is not text has no
\* replace() and takes the except branch as a text that does not parse does
FormatDates(f, local) ==
    LET event_date == Get(f, "event_date", None)
        dt == IF IsStr(event_date)
              THEN FromIsoFormat(Replace(event_date.s, "Z", UtcSuffix))
              ELSE ParseFailed
    IN IF ~Truthy(event_date) THEN f
       ELSE IF dt.ok
       THEN Put(Put(Put(f, "event_date_formatted", PyStr(StrfDate(dt))),
                    "event_time_formatted", PyStr(StrfTime(dt))),
                "event_datetime_local",
                PyStr(StrfDateTime(AsTimezone(dt, local))))
       ELSE DegradedDateFields(f, event_date)

\* a test that lets every row through
AllowListTestKeepAll(league_api_id, allow) == "keep"

\* line 149: league_api_id and int(league_api_id) in TARGET_LEAGUE_IDS
\* "keep", "drop", or "raise" when int() refuses the identifier
AllowListTest(league_api_id, allow) ==
    IF ~Truthy(league_api_id) THEN "drop"
    ELSE LET n == ToInt(league_api_id)
         IN IF ~n.ok THEN "raise"
            ELSE IF n.n \in allow THEN "keep" ELSE "drop"

\* the loop of lines 143-173 from row i on, acc the fixtures appended so far
RECURSIVE NormalizeFrom(_, _, _, _, _)
NormalizeFrom(rs, i, acc, allow, local) ==
    IF i > Len(rs) THEN Returned(acc)
    ELSE LET fixture == rs[i]
             test == AllowListTest(Get(fixture, "league_api_id", None), allow)
         IN IF test = "raise" THEN Raised("ValueError")
            ELSE IF test = "drop" THEN NormalizeFrom(rs, i + 1, acc, allow, local)
            ELSE NormalizeFrom(rs, i + 1,
                     Append(acc, FormatDates(ResolveNames(fixture), local)),
                     allow, local)

\* a loop that returns its fixtures last row first
NormalizeReversed(rs, allow, local) ==
    LET r == NormalizeFrom(rs, 1, <<>>, allow, local)
    IN IF r.st = "returned"
       THEN Returned([k \in 1..Len(r.v) |-> r.v[Len(r.v) + 1 - k]])
       ELSE r

\* a list that still holds what the previous call appended
LeftoverFixtures == IF fixtures.st = "returned" THEN fixtures.v ELSE <<>>

\* line 142: fixtures = []
NewFixtures == <<>>

Normalize(rs, allow, local) == NormalizeFrom(rs, 1, NewFixtures, allow, local)

----------------------------------------------------------------------------
(* get_fixtures_by_league (lines 198-228) *)

\* position of key in an ordered mapping (a sequence of <<key, value>>),
\* 0 when absent
KeyIndex(mapping, key) ==
    IF \E i \in 1..Len(mapping) : mapping[i][1] = key
    THEN CHOOSE i \in 1..Len(mapping) : mapping[i][1] = key
    ELSE 0

\* a loop in which every fixture sets the name and country of its group anew
LeagueStepReseeding(mapping, fixture) ==
    LET league_id == Get(fixture, "league_api_id", None)
        k == KeyIndex(mapping, league_id)
        group == [id |-> league_id,
                  name |-> Get(fixture, "league_name_tc", PyStr(UnknownLeague)),
                  country |-> Get(fixture, "league_country", PyStr(<<>>)),
                  fixtures |-> <<fixture>>]
    IN IF k = 0 THEN Append(mapping, <<league_id, group>>)
       ELSE [mapping EXCEPT ![k] =
                <<league_id,
                  [group EXCEPT !.fixtures = Append(mapping[k][2].fixtures, fixture)]>>]

\* a loop that stores the fixture as the whole list of its group instead of
\* appending it
LeagueStepOverwrite(mapping, fixture) ==
    LET league_id == Get(fixture, "league_api_id", None)
        k == KeyIndex(mapping, league_id)
        group == [id |-> league_id,
                  name |-> Get(fixture, "league_name_tc", PyStr(UnknownLeague)),
                  country |-> Get(fixture, "league_country", PyStr(<<>>)),
                  fixtures |-> <<fixture>>]
    IN IF k = 0 THEN Append(mapping, <<league_id, group>>)
       ELSE [mapping EXCEPT ![k] = <<league_id, [@[2] EXCEPT !.fixtures = <<fixture>>]>>]

\* lines 213-224: one turn of the loop
LeagueStep(mapping, fixture) ==
    LET league_id == Get(fixture, "league_api_id", None)
        league_name == Get(fixture, "league_name_tc", PyStr(UnknownLeague))
        seeded == IF KeyIndex(mapping, league_id) = 0
                  THEN Append(mapping,
                           <<league_id,
                             [id |-> league_id,
                              name |-> league_name,
                              country |-> Get(fixture, "league_country", PyStr(<<>>)),
                              fixtures |-> <<>>]>>)
                  ELSE mapping
        k == KeyIndex(seeded, league_id)
    IN [seeded EXCEPT ![k] =
           <<league_id, [@[2] EXCEPT !.fixtures = Append(@, fixture)]>>]

RECURSIVE LeagueLoop(_, _, _)
LeagueLoop(fs, i, mapping) ==
    IF i > Len(fs) THEN mapping
    ELSE LeagueLoop(fs, i + 1, LeagueStep(mapping, fs[i]))

\* sorted() is stable: item goes behind every item of the sorted acc whose
\* name is not greater
RECURSIVE InsertByName(_, _)
InsertByName(acc, item) ==
    IF acc = <<>> THEN <<item>>
    ELSE IF StrLess(item[2].name.s, acc[Len(acc)][2].name.s)
    THEN Append(InsertByName(SubSeq(acc, 1, Len(acc) - 1), item), acc[Len(acc)])
    ELSE Append(acc, item)

RECURSIVE SortByNameFrom(_, _, _)
SortByNameFrom(items, i, acc) ==
    IF i > Len(items) THEN acc
    ELSE SortByNameFrom(items, i + 1, InsertByName(acc, items[i]))

\* a return of the groups in the order the loop created them
SortLeaguesInsertionOrder(mapping) == Returned(mapping)

\* line 227: sorted(leagues.items(), key=lambda x: x[1]['name']); with two or
\* more items every name is compared with another one, and a name that is
\* None has no '<': TypeError
SortLeagues(mapping) ==
    IF Len(mapping) >= 2 /\ \E i \in 1..Len(mapping) : ~IsStr(mapping[i][2].name)
    THEN Raised("TypeError")
    ELSE Returned(SortByNameFrom(mapping, 1, <<>>))

GetFixturesByLeague(fs) == SortLeagues(LeagueLoop(fs, 1, <<>>))

----------------------------------------------------------------------------
(* get_fixtures_by_date (lines 230-254) *)

\* lines 245-250: one turn of the loop
DateStep(mapping, fixture) ==
    LET date_key == Get(fixture, "event_date_formatted", PyStr(UnknownDate))
        seeded == IF KeyIndex(mapping, date_key) = 0
                  THEN Append(mapping, <<date_key, <<>>>>)
                  ELSE mapping
        k == KeyIndex(seeded, date_key)
    IN [seeded EXCEPT ![k] = <<date_key, Append(@[2], fixture)>>]

RECURSIVE DateLoop(_, _, _)
DateLoop(fs, i, mapping) ==
    IF i > Len(fs) THEN mapping
    ELSE DateLoop(fs, i + 1, DateStep(mapping, fs[i]))

RECURSIVE InsertByKey(_, _)
InsertByKey(acc, item) ==
    IF acc = <<>> THEN <<item>>
    ELSE IF StrLess(item[1].s, acc[Len(acc)][1].s)
    THEN Append(InsertByKey(SubSeq(acc, 1, Len(acc) - 1), item), acc[Len(acc)])
    ELSE Append(acc, item)

RECURSIVE SortByKeyFrom(_, _, _)
SortByKeyFrom(items, i, acc) ==
    IF i > Len(items) THEN acc
    ELSE SortByKeyFrom(items, i + 1, InsertByKey(acc, items[i]))

\* a return of the keys in the order the loop created them
SortDatesInsertionOrder(mapping) == Returned(mapping)

\* line 253: sorted(dates.items()); the keys differ, so the tuples are
\* ordered by key alone, and keys that are not all text have no '<'
SortDates(mapping) ==
    IF Len(mapping) >= 2 /\ \E i \in 1..Len(mapping) : ~IsStr(mapping[i][1])
    THEN Raised("TypeError")
    ELSE Returned(SortByKeyFrom(mapping, 1, <<>>))

GetFixturesByDate(fs) == SortDates(DateLoop(fs, 1, <<>>))

----------------------------------------------------------------------------
(* save_fixtures_to_json (lines 256-282) *)

\* a copy that leaves raw_data text as it is
SerializableValueUndecoded(key, value) == value

\* lines 270-276: the value written for one key of one fixture
SerializableValue(key, value) ==
    IF key = "raw_data" /\ Truthy(value)
    THEN IF IsStr(value)
         THEN LET r == JsonLoads(value.s)
              IN IF r.ok THEN r.v ELSE value
         ELSE value
    ELSE value

\* lines 268-276: the copy of one fixture
SerializableFixture(fixture) ==
    [key \in DOMAIN fixture |-> SerializableValue(key, fixture[key])]

\* lines 265-280: the list handed to json.dump, which raises TypeError on a
\* value it cannot write
SaveFixturesToJson(fs) ==
    LET out == [i \in 1..Len(fs) |-> SerializableFixture(fs[i])]
    IN IF \A i \in 1..Len(fs) : \A key \in DOMAIN out[i] : JsonSerializable(out[i][key])
       THEN Returned(out)
       ELSE Raised("TypeError")

----------------------------------------------------------------------------
(* get_db_path and sqlite3.connect (db_reader.py, lines 59-89) *)

\* fixtures.db is at one of the four paths and opens; it is at none of them;
\* or the path exists and sqlite3 cannot open it
StorageStates == {"ok", "missing", "unopenable"}

\* line 74 raises FileNotFoundError, line 87 sqlite3.OperationalError
StorageError(state) ==
    IF state = "missing" THEN Raised("FileNotFoundError") ELSE Raised("OperationalError")

----------------------------------------------------------------------------
(* HTMLBuilder (static_generator/html_builder.py) *)

\* the files a run writes, in the order it opens them
IndexPage == [file |-> "index.html"]
LeaguePage(safe_name) == [file |-> "leagues/.html", stem |-> safe_name]
ApiFixtures == [file |-> "api/fixtures.json"]
ApiLeagues == [file |-> "api/leagues.json"]
ApiDates == [file |-> "api/dates.json"]
ApiStats == [file |-> "api/stats.json"]
StyleSheet == [file |-> "css/style.css"]
Script == [file |-> "js/main.js"]

\* how far a run has come: the exception that ended it, or "none", and the
\* files written so far
Done(written) == [exc |-> "none", written |-> written]
Failed(exc, written) == [exc |-> exc, written |-> written]

\* c.isalnum() for the characters of the model
IsAlnum(c) ==
    \/ IsDigit(c)
    \/ Ord(c) \in 65..90 \/ Ord(c) \in 97..122 \/ Ord(c) >= 19968

\* str(n) of an integer that is not negative
RECURSIVE NatText(_)
NatText(n) ==
    IF n < 10 THEN <<DigitChars[n + 1]>>
    ELSE NatText(n \div 10) \o <<DigitChars[(n % 10) + 1]>>

\* the text an f-string writes for a value
StrOf(v) ==
    CASE IsStr(v) -> v.s
      [] IsInt(v) -> IF v.n < 0 THEN <<"-">> \o NatText(0 - v.n) ELSE NatText(v.n)
      [] OTHER -> <<"N", "o", "n", "e">>

\* line 195: c for c in league_name if c.isalnum() or c in (' ', '-', '_')
RECURSIVE KeepFileNameChars(_)
KeepFileNameChars(s) ==
    IF s = <<>> THEN <<>>
    ELSE (IF Head(s) \in {" ", "-", "_"} \/ IsAlnum(Head(s)) THEN <<Head(s)>> ELSE <<>>)
            \o KeepFileNameChars(Tail(s))

\* lines 195-198: the file name of a league page
SafeName(league_name, league_id) ==
    LET kept == KeepFileNameChars(league_name)
        stripped == LStrip(RStrip(kept))
        safe_name == Replace(Replace(stripped, " ", <<"_">>), "-", <<"_">>)
    IN IF safe_name = <<>>
       THEN <<"l", "e", "a", "g", "u", "e", "_">> \o StrOf(league_id)
       ELSE safe_name

\* Each generator takes the run so far and leaves it as it is once an
\* exception has ended it.  The Jinja2 templates are not among the sources:
\* rendering is taken to return, and writing a file to succeed.

\* lines 106-152: both groupings, the template, index.html
GenerateIndex(fs, run) ==
    IF run.exc # "none" THEN run
    ELSE LET fixtures_by_date == GetFixturesByDate(fs)
             fixtures_by_league == GetFixturesByLeague(fs)
         IN IF fixtures_by_date.st = "raised"
            THEN Failed(fixtures_by_date.exc, run.written)
            ELSE IF fixtures_by_league.st = "raised"
            THEN Failed(fixtures_by_league.exc, run.written)
            ELSE Done(Append(run.written, IndexPage))

\* lines 173-204: one page per group; a name that is no text cannot be
\* iterated for its file name: TypeError
RECURSIVE LeaguePagesFrom(_, _, _)
LeaguePagesFrom(groups, g, written) ==
    IF g > Len(groups) THEN Done(written)
    ELSE IF ~IsStr(groups[g][2].name) THEN Failed("TypeError", written)
    ELSE LeaguePagesFrom(groups, g + 1,
             Append(written,
                    LeaguePage(SafeName(groups[g][2].name.s, groups[g][1]))))

\* lines 154-207
GenerateLeaguePages(fs, run) ==
    IF run.exc # "none" THEN run
    ELSE LET fixtures_by_league == GetFixturesByLeague(fs)
         IN IF fixtures_by_league.st = "raised"
            THEN Failed(fixtures_by_league.exc, run.written)
            ELSE LeaguePagesFrom(fixtures_by_league.v, 1, run.written)

\* json.dump of a fixture as it is
FixtureSerializable(f) == \A key \in DOMAIN f : JsonSerializable(f[key])

\* the name json.dump writes for a key of a dict: text as it is, an integer
\* in decimal digits, None as null
JsonKey(k) == IF IsStr(k) THEN k.s ELSE IF IsInt(k) THEN StrOf(k) ELSE <<"n", "u", "l", "l">>

\* the members json.dump writes for a dict: one for every item, in the order
\* of the dict, under the name of its key
JsonObject(mapping) ==
    [i \in 1..Len(mapping) |-> <<JsonKey(mapping[i][1]), mapping[i][2]>>]

\* The four documents, without generated_at, which is the time of the clock.

\* a stats.json that gives the number of fixtures for the number of leagues
StatsDocumentLeaguesAsFixtures(fs, fixtures_by_league, fixtures_by_date) ==
    [status |-> "success",
     total_fixtures |-> Len(fs),
     total_leagues |-> Len(fs),
     total_dates |-> Len(fixtures_by_date),
     leagues |-> [g \in 1..Len(fixtures_by_league) |->
                    [id |-> fixtures_by_league[g][1],
                     name |-> fixtures_by_league[g][2].name,
                     count |-> Len(fixtures_by_league[g][2].fixtures)]]]

\* lines 229-234
FixturesDocument(fs) ==
    [status |-> "success", count |-> Len(fs), data |-> fs]

\* lines 242-247
LeaguesDocument(fixtures_by_league) ==
    [status |-> "success",
     count |-> Len(fixtures_by_league),
     data |-> JsonObject(fixtures_by_league)]

\* lines 255-260
DatesDocument(fixtures_by_date) ==
    [status |-> "success",
     count |-> Len(fixtures_by_date),
     data |-> JsonObject(fixtures_by_date)]

\* lines 268-281
StatsDocument(fs, fixtures_by_league, fixtures_by_date) ==
    [status |-> "success",
     total_fixtures |-> Len(fs),
     total_leagues |-> Len(fixtures_by_league),
     total_dates |-> Len(fixtures_by_date),
     leagues |-> [g \in 1..Len(fixtures_by_league) |->
                    [id |-> fixtures_by_league[g][1],
                     name |-> fixtures_by_league[g][2].name,
                     count |-> Len(fixtures_by_league[g][2].fixtures)]]]

\* lines 228-285: what a call that returns has written, by file
JsonApiDocuments(fs) ==
    [fixtures |-> FixturesDocument(fs),
     leagues |-> LeaguesDocument(GetFixturesByLeague(fs).v),
     dates |-> DatesDocument(GetFixturesByDate(fs).v),
     stats |-> StatsDocument(fs, GetFixturesByLeague(fs).v, GetFixturesByDate(fs).v)]

\* lines 209-294: the four documents; each file is opened before json.dump
\* runs, so a dump that raises leaves its file behind
GenerateJsonApi(fs, run) ==
    IF run.exc # "none" THEN run
    ELSE IF ~\A i \in 1..Len(fs) : FixtureSerializable(fs[i])
    THEN Failed("TypeError", Append(run.written, ApiFixtures))
    ELSE IF GetFixturesByLeague(fs).st = "raised"
    THEN Failed("TypeError", Append(run.written, ApiFixtures))
    ELSE IF GetFixturesByDate(fs).st = "raised"
    THEN Failed("TypeError", run.written \o <<ApiFixtures, ApiLeagues>>)
    ELSE Done(run.written \o <<ApiFixtures, ApiLeagues, ApiDates, ApiStats>>)

\* a style sheet written whatever has happened to the run before
GenerateCssRegardless(run) == Done(Append(run.written, StyleSheet))

\* lines 296-635
GenerateCss(run) ==
    IF run.exc # "none" THEN run ELSE Done(Append(run.written, StyleSheet))

\* lines 637-868
GenerateJs(run) ==
    IF run.exc # "none" THEN run ELSE Done(Append(run.written, Script))

\* a run that writes the two static files whatever get_fixtures did
GenerateAllStaticFirst(outcome) == Done(<<StyleSheet, Script>>)

\* lines 870-895: get_fixtures, then the generators in the order of the
\* dict display; the first exception ends the run
GenerateAllFrom(outcome) ==
    IF outcome.st = "raised" THEN Failed(outcome.exc, <<>>)
    ELSE GenerateJs(
             GenerateCss(
                 GenerateJsonApi(outcome.v,
                     GenerateLeaguePages(outcome.v,
                         GenerateIndex(outcome.v, Done(<<>>))))))

----------------------------------------------------------------------------
(* The stored fixtures the model draws its database from *)

MaxRows == 2

Todays == {Date(2024, 2, 28)}
DaysAheadChoices == {2}
LocalOffsets == {480}

\* event_date texts: the first four lie in the window of the query for the
\* day and the days ahead above, the last two do not; TsTruncated is the
\* one that datetime.fromisoformat refuses
TsUtc == DateIso(Date(2024, 2, 28)) \o <<"T", "1", "5", ":", "0", "0", ":", "0", "0", "Z">>
TsOffset == DateIso(Date(2024, 2, 29)) \o <<"T", "2", "3", ":", "3", "0", ":", "0", "0", "-", "0", "5", ":", "0", "0">>
TsDateOnly == DateIso(Date(2024, 3, 1))
TsTruncated == DateIso(Date(2024, 2, 28)) \o <<"T", "1", "5", ":", "0", "0", ":", "0">>
TsLastDay == DateIso(Date(2024, 3, 1)) \o <<"T", "1", "5", ":", "0", "0", ":", "0", "0", "Z">>
TsDayBefore == DateIso(Date(2024, 2, 27)) \o <<"T", "1", "5", ":", "0", "0", ":", "0", "0", "Z">>

\* raw_data texts
JsonObjectText == <<"{", "\"", "a", "\"", ":", "1", "}">>
JsonNestedText == <<"{", "\"", "a", "\"", ":", " ", "{", "\"", "b", "\"", ":", "[", "1", ",", "-", "2", "]", "}", ",", " ", "\"", "c", "\"", ":", "n", "u", "l", "l", "}">>
NotJsonText == <<"{", "\"", "a", "\"", ":", "1">>

BaseRow ==
    [id |-> PyInt(0),
     league_api_id |-> PyInt(39),
     league_name_tc |-> PyStr(<<"B">>),
     league_name_en |-> PyStr(<<"b">>),
     league_country |-> PyStr(<<"c">>),
     home_team_name_tc |-> PyStr(<<"B">>),
     home_team_name_en |-> PyStr(<<"b">>),
     away_team_name_tc |-> PyStr(<<"B">>),
     away_team_name_en |-> PyStr(<<"b">>),
     event_date |-> PyStr(TsUtc),
     event_timestamp |-> PyInt(1),
     status_short |-> PyStr(StatusNS),
     raw_data |-> PyStr(JsonObjectText)]

WithLeague(r, id) == [r EXCEPT !.league_api_id = id]

WithNames(r, tc, en) ==
    [r EXCEPT !.league_name_tc = tc, !.league_name_en = en,
              !.home_team_name_tc = tc, !.home_team_name_en = en,
              !.away_team_name_tc = tc, !.away_team_name_en = en]

WithDate(r, d) == [r EXCEPT !.event_date = d]

WithRaw(r, raw) == [r EXCEPT !.raw_data = raw]

Empty == PyStr(<<>>)

StoredFixtureSamples ==
    << BaseRow,
       \* competition identifiers
       WithLeague(BaseRow, None),
       WithLeague(BaseRow, PyInt(0)),
       WithLeague(BaseRow, PyInt(-1)),
       WithLeague(BaseRow, PyInt(99999)),
       WithLeague(BaseRow, PyStr(<<"3", "9">>)),
       WithLeague(BaseRow, PyStr(<<"a", "b", "c">>)),
       \* localized and English names, with other raw payloads
       WithNames(BaseRow, None, None),
       WithNames(BaseRow, None, Empty),
       WithRaw(WithNames(BaseRow, None, PyStr(<<"a">>)), PyStr(JsonNestedText)),
       WithRaw(WithNames(BaseRow, Empty, PyStr(<<"a">>)), PyStr(NotJsonText)),
       WithRaw([BaseRow EXCEPT !.home_team_name_tc = None,
                               !.home_team_name_en = None], Empty),
       \* a second competition
       WithNames(WithLeague(BaseRow, PyInt(61)), PyStr(<<"A">>), PyStr(<<"a">>)),
       WithNames(WithLeague(BaseRow, PyInt(61)), None, None),
       WithNames(WithLeague(BaseRow, PyInt(61)), PyStr(<<"B", ".">>), PyStr(<<"b">>)),
       \* scheduling timestamps, with other raw payloads
       WithRaw(WithDate(BaseRow, PyStr(TsOffset)), None),
       WithRaw(WithDate(BaseRow, PyStr(TsDateOnly)), PyInt(5)),
       WithDate(BaseRow, PyStr(TsTruncated)),
       WithLeague(WithDate(BaseRow, PyStr(TsTruncated)), PyInt(0)),
       WithDate(BaseRow, PyStr(TsLastDay)),
       WithDate(BaseRow, PyStr(TsDayBefore)),
       WithDate(BaseRow, None),
       WithRaw([BaseRow EXCEPT !.event_timestamp = None], PyBytes(<<0>>)),
       \* a status code the query leaves out
       [BaseRow EXCEPT !.status_short = PyStr(StatusFT)] >>

\* fixtures.id is the primary key: every stored fixture has its own
StoredFixtures ==
    {[StoredFixtureSamples[i] EXCEPT !.id = PyInt(i)] : i \in DOMAIN StoredFixtureSamples}

\* the tables hold at most MaxRows fixtures
Databases ==
    UNION {{{f[i] : i \in 1..n} : f \in [1..n -> StoredFixtures]} : n \in 0..MaxRows}

----------------------------------------------------------------------------
(* The state machine *)

Init ==
    /\ db \in Databases
    /\ today \in Todays
    /\ days_ahead \in DaysAheadChoices
    /\ local_utcoffset \in LocalOffsets
    /\ TARGET_LEAGUE_IDS = {}
    /\ pc = "import"
    /\ rows = <<>>
    /\ fixtures = NotCalled
    /\ leagues = NotCalled
    /\ dates = NotCalled
    /\ document = NotCalled
    /\ rerun = NotCalled
    /\ import_error = "none"
    /\ storage \in StorageStates
    /\ storage # "ok" => db = {}
    /\ site = NotCalled
    /\ queries = 0

\* lines 19-22: league_manager imports and its mapping gives the allow-list
ImportLeagueManager ==
    /\ pc = "import"
    /\ \E keys \in ExternalMappingKeys : TARGET_LEAGUE_IDS' = keys
    /\ pc' = "ready"
    /\ UNCHANGED <<db, today, days_ahead, local_utcoffset, rows, fixtures,
                   leagues, dates, document, rerun,
                   import_error, storage, site, queries>>

\* lines 23-57: ImportError (league_manager is missing, or has no
\* LEAGUE_ID_TO_TRADITIONAL_CHINESE), the built-in identifiers take over
ImportLeagueManagerFails ==
    /\ pc = "import"
    /\ TARGET_LEAGUE_IDS' = DefaultLeagueIds
    /\ import_error' = "ImportError"
    /\ pc' = "ready"
    /\ UNCHANGED <<db, today, days_ahead, local_utcoffset, rows, fixtures,
                   leagues, dates, document, rerun, storage, site, queries>>

\* lines 19-23: an exception that is no ImportError (league_manager does not
\* compile, or its mapping is no dict and has no keys()) passes the except
\* clause and ends the import of db_reader
ImportLeagueManagerRaises ==
    /\ pc = "import"
    /\ \E exc \in UncaughtImportErrors : import_error' = exc
    /\ pc' = "import raised"
    /\ UNCHANGED <<db, today, days_ahead, local_utcoffset, TARGET_LEAGUE_IDS, rows,
                   fixtures, leagues, dates, document, rerun, storage, site, queries>>

\* get_fixtures(days_ahead): get_db_path and connect, the query, then the
\* normalization loop
GetFixtures ==
    /\ pc = "ready"
    /\ fixtures = NotCalled
    /\ site = NotCalled
    /\ IF storage = "ok"
       THEN \E q \in QueryResults(db, today, days_ahead) :
               /\ rows' = q
               /\ queries' = queries + 1
               /\ fixtures' = Normalize(q, TARGET_LEAGUE_IDS, local_utcoffset)
       ELSE /\ rows' = rows
            /\ queries' = queries
            /\ fixtures' = StorageError(storage)
    /\ UNCHANGED <<db, today, days_ahead, local_utcoffset, TARGET_LEAGUE_IDS, pc,
                   leagues, dates, document, rerun,
                   import_error, storage, site>>

\* get_fixtures_by_league(fixtures) on what get_fixtures returned
CallGetFixturesByLeague ==
    /\ fixtures.st = "returned"
    /\ leagues = NotCalled
    /\ leagues' = GetFixturesByLeague(fixtures.v)
    /\ UNCHANGED <<db, today, days_ahead, local_utcoffset, TARGET_LEAGUE_IDS, pc,
                   rows, fixtures, dates, document, rerun,
                   import_error, storage, site, queries>>

\* get_fixtures_by_date(fixtures) on what get_fixtures returned
CallGetFixturesByDate ==
    /\ fixtures.st = "returned"
    /\ dates = NotCalled
    /\ dates' = GetFixturesByDate(fixtures.v)
    /\ UNCHANGED <<db, today, days_ahead, local_utcoffset, TARGET_LEAGUE_IDS, pc,
                   rows, fixtures, leagues, document, rerun,
                   import_error, storage, site, queries>>

\* save_fixtures_to_json(fixtures, output_path) on what get_fixtures returned
CallSaveFixturesToJson ==
    /\ fixtures.st = "returned"
    /\ document = NotCalled
    /\ document' = SaveFixturesToJson(fixtures.v)
    /\ UNCHANGED <<db, today, days_ahead, local_utcoffset, TARGET_LEAGUE_IDS, pc,
                   rows, fixtures, leagues, dates, rerun,
                   import_error, storage, site, queries>>

\* HTMLBuilder.generate_all(days_ahead), the run of html_builder.py: its own
\* get_fixtures call, then the five generators
GenerateAll ==
    /\ pc = "ready"
    /\ fixtures = NotCalled
    /\ site = NotCalled
    /\ IF storage = "ok"
       THEN \E q \in QueryResults(db, today, days_ahead) :
               /\ rows' = q
               /\ queries' = queries + 1
               /\ \E outcome \in {Normalize(q, TARGET_LEAGUE_IDS, local_utcoffset)} :
                     site' = GenerateAllFrom(outcome)
       ELSE /\ rows' = rows
            /\ queries' = queries
            /\ site' = GenerateAllFrom(StorageError(storage))
    /\ UNCHANGED <<db, today, days_ahead, local_utcoffset, TARGET_LEAGUE_IDS, pc,
                   fixtures, leagues, dates, document, rerun, import_error, storage>>

Next ==
    \/ ImportLeagueManager
    \/ ImportLeagueManagerFails
    \/ ImportLeagueManagerRaises
    \/ GetFixtures
    \/ GenerateAll
    \/ CallGetFixturesByLeague
    \/ CallGetFixturesByDate
    \/ CallSaveFixturesToJson

Spec == Init /\ [][Next]_vars

----------------------------------------------------------------------------
(* The normalization loop on its own: the rows are given to the loop        *)
(* directly, so that rows no query of get_fixtures selects (a timestamp     *)
(* that is NULL, empty or not a date at all) are among them                 *)

MaxRawRows == 2

TsPlusZero == DateIso(Date(2024, 2, 28)) \o <<"T", "1", "5", ":", "0", "0", ":", "0", "0", "+", "0", "0", ":", "0", "0">>
TsAhead == DateIso(Date(2024, 3, 1)) \o <<"T", "0", "1", ":", "3", "0", ":", "0", "0", "+", "0", "8", ":", "0", "0">>
TsBad == <<"b", "a", "d">>

RawRowSamples ==
    << WithDate(BaseRow, PyStr(TsLastDay)),
       WithLeague(BaseRow, PyInt(99999)),
       WithDate(WithLeague(BaseRow, PyInt(61)), PyStr(TsBad)),
       \* no timestamp
       WithDate(BaseRow, None),
       WithDate(BaseRow, Empty),
       \* UTC offsets, and a text that carries none
       WithDate(BaseRow, PyStr(TsOffset)),
       WithDate(BaseRow, PyStr(TsPlusZero)),
       WithDate(BaseRow, PyStr(TsAhead)),
       WithDate(BaseRow, PyStr(TsDateOnly)),
       \* names
       WithNames(BaseRow, None, PyStr(<<"a">>)),
       WithNames(BaseRow, None, None),
       WithNames(BaseRow, Empty, Empty),
       \* identifiers the allow-list test drops or refuses
       WithLeague(BaseRow, PyInt(0)),
       WithLeague(BaseRow, PyStr(<<"a", "b", "c">>)) >>

RawRows ==
    {[RawRowSamples[i] EXCEPT !.id = PyInt(i)] : i \in DOMAIN RawRowSamples}

\* competition 39 at 2024-03-01T15:00:00Z, competition 99999, competition 61
\* with the timestamp "bad"
ScenarioRows ==
    [i \in 1..3 |-> [RawRowSamples[i] EXCEPT !.id = PyInt(i)]]

RawRowSequences ==
    UNION {[1..n -> RawRows] : n \in 0..MaxRawRows} \cup {ScenarioRows}

\* the zones a later process may run in
LaterLocalOffsets == LocalOffsets \cup {0}

InitNormalize ==
    /\ db = {}
    /\ today \in Todays
    /\ days_ahead \in DaysAheadChoices
    /\ local_utcoffset \in LocalOffsets
    /\ TARGET_LEAGUE_IDS \in ExternalMappingKeys \cup {DefaultLeagueIds}
    /\ pc = "ready"
    /\ rows \in RawRowSequences
    /\ fixtures = NotCalled
    /\ leagues = NotCalled
    /\ dates = NotCalled
    /\ document = NotCalled
    /\ rerun = NotCalled
    /\ import_error = "none"
    /\ storage = "ok"
    /\ site = NotCalled
    /\ queries = 0

\* lines 142-173 on the given rows
RunNormalization ==
    /\ fixtures = NotCalled
    /\ fixtures' = Normalize(rows, TARGET_LEAGUE_IDS, local_utcoffset)
    /\ UNCHANGED <<db, today, days_ahead, local_utcoffset, TARGET_LEAGUE_IDS, pc,
                   rows, leagues, dates, document, rerun,
                   import_error, storage, site, queries>>

\* lines 142-173 once more on the same rows with the same allow-list, in a
\* process whose local zone is its own
RunNormalizationAgain ==
    /\ fixtures # NotCalled
    /\ rerun = NotCalled
    /\ \E zone \in LaterLocalOffsets :
          rerun' = [local |-> zone,
                    outcome |-> Normalize(rows, TARGET_LEAGUE_IDS, zone)]
    /\ UNCHANGED <<db, today, days_ahead, local_utcoffset, TARGET_LEAGUE_IDS, pc,
                   rows, fixtures, leagues, dates, document,
                   import_error, storage, site, queries>>

NextNormalize ==
    \/ RunNormalization
    \/ RunNormalizationAgain

SpecNormalize == InitNormalize /\ [][NextNormalize]_vars

----------------------------------------------------------------------------
(* Properties *)

\* the row of the query result is among the fixtures get_fixtures returned
Retained(row) ==
    /\ fixtures.st = "returned"
    /\ \E k \in 1..Len(fixtures.v) : fixtures.v[k].id = row.id

\* the competition identifier, read as an integer, is in the allow-list
AllowListed(row) ==
    LET n == ToInt(row.league_api_id)
    IN n.ok /\ n.n \in TARGET_LEAGUE_IDS

\* the identifier is missing or is text that is no integer
MissingOrNonNumeric(row) ==
    \/ IsNone(row.league_api_id)
    \/ IsStr(row.league_api_id) /\ ~ToInt(row.league_api_id).ok

\* the scheduling timestamp is non-empty text that does not parse
Unparseable(row) ==
    /\ IsStr(row.event_date)
    /\ row.event_date.s # <<>>
    /\ ~FromIsoFormat(Replace(row.event_date.s, "Z", UtcSuffix)).ok

DisplayNames == {"league_name_tc", "home_team_name_tc", "away_team_name_tc"}

Orderings(n) == {p \in [1..n -> 1..n] : \A i, j \in 1..n : i # j => p[i] # p[j]}

Permuted(seq, p) == [i \in 1..Len(seq) |-> seq[p[i]]]

\* C1: whenever get_fixtures returns, a row of the query result whose
\* competition identifier is an integer (0 and negative ones included) is
\* among the returned fixtures if and only if that integer is in the
\* allow-list.
C1_RetainedIffAllowListed ==
    fixtures.st = "returned" =>
        \A i \in 1..Len(rows) :
            IsInt(rows[i].league_api_id) =>
                (Retained(rows[i]) <=> rows[i].league_api_id.n \in TARGET_LEAGUE_IDS)

\* C2: once get_fixtures has run, the rows whose competition identifier is
\* missing or non-numeric text have been dropped without raising: the
\* outcome is what the loop returns for the other rows alone.
C2_BadIdentifierDropped ==
    fixtures.st # "not called" =>
        /\ fixtures.st = "returned"
        /\ \A i \in 1..Len(rows) : MissingOrNonNumeric(rows[i]) => ~Retained(rows[i])
        /\ fixtures = Normalize(SelectSeq(rows, LAMBDA r : ~MissingOrNonNumeric(r)),
                                TARGET_LEAGUE_IDS, local_utcoffset)

\* C3: in every returned fixture each of the three resolved display names
\* is a non-empty text, never None.
C3_NamesNonEmpty ==
    fixtures.st = "returned" =>
        \A k \in 1..Len(fixtures.v) : \A name \in DisplayNames :
            /\ IsStr(fixtures.v[k][name])
            /\ fixtures.v[k][name].s # <<>>

\* C4: whenever get_fixtures returns, every allow-listed row whose
\* scheduling timestamp is non-empty text that does not parse is among the
\* returned fixtures, with event_time_formatted "00:00" and with
\* event_date_formatted and event_datetime_local equal to the raw text.
C4_UnparseableTimestampRetained ==
    fixtures.st = "returned" =>
        \A i \in 1..Len(rows) :
            (AllowListed(rows[i]) /\ Unparseable(rows[i])) =>
                \E k \in 1..Len(fixtures.v) :
                    LET f == fixtures.v[k]
                    IN /\ f.id = rows[i].id
                       /\ DOMAIN f = DOMAIN rows[i] \cup
                             {"event_date_formatted", "event_time_formatted",
                              "event_datetime_local"}
                       /\ f.event_time_formatted = PyStr(MidnightText)
                       /\ f.event_date_formatted = rows[i].event_date
                       /\ f.event_datetime_local = rows[i].event_date

\* the places <<group, position>> of an ordered mapping of fixture lists
\* that hold the fixture with this id
PlacesIn(groups, id) ==
    {<<g, j>> \in (1..Len(groups)) \X (1..MaxRows + 1) :
        j <= Len(groups[g]) /\ groups[g][j].id = id}

RECURSIVE SumOfLens(_)
SumOfLens(groups) ==
    IF groups = <<>> THEN 0 ELSE Len(Head(groups)) + SumOfLens(Tail(groups))

\* every fixture of fs is in exactly one of the groups, and the group sizes
\* add up to the number of fixtures
Partitions(groups, fs) ==
    /\ \A k \in 1..Len(fs) : Cardinality(PlacesIn(groups, fs[k].id)) = 1
    /\ SumOfLens(groups) = Len(fs)

LeagueFixtureLists(mapping) == [g \in 1..Len(mapping) |-> mapping[g][2].fixtures]

DateFixtureLists(mapping) == [g \in 1..Len(mapping) |-> mapping[g][2]]

\* C5: in the mapping get_fixtures_by_league returns and in the mapping
\* get_fixtures_by_date returns, every normalized fixture is in exactly one
\* group, so the group sizes add up to the number of normalized fixtures.
C5_GroupingsPartition ==
    /\ leagues.st = "returned" => Partitions(LeagueFixtureLists(leagues.v), fixtures.v)
    /\ dates.st = "returned" => Partitions(DateFixtureLists(dates.v), fixtures.v)

\* both groupings have acted on two fixtures: two competitions, one day
C5_Witness ==
    /\ leagues.st = "returned" /\ Len(leagues.v) = 2
    /\ dates.st = "returned" /\ Len(dates.v) = 1 /\ Len(dates.v[1][2]) = 2

\* the groups come in ascending order of display name
AscendingNames(mapping) ==
    \A i \in 1..(Len(mapping) - 1) :
        StrLessEq(mapping[i][2].name.s, mapping[i + 1][2].name.s)

\* C6: the mapping get_fixtures_by_league returns iterates its groups in
\* ascending order of display name, for the normalized fixtures in the
\* order get_fixtures returned them and, once the call is made, in every
\* other order.
C6_LeaguesAscendingByName ==
    /\ leagues.st = "returned" => AscendingNames(leagues.v)
    /\ leagues # NotCalled =>
          \A p \in Orderings(Len(fixtures.v)) :
              LET r == GetFixturesByLeague(Permuted(fixtures.v, p))
              IN r.st = "returned" => AscendingNames(r.v)

\* competition 39 came first in the input and competition 61, whose name
\* is the smaller one, comes first in the mapping
C6_Witness ==
    /\ leagues.st = "returned" /\ Len(leagues.v) = 2
    /\ fixtures.v[1].league_api_id = PyInt(39)
    /\ leagues.v[1][1] = PyInt(61) /\ leagues.v[2][1] = PyInt(39)
    /\ StrLess(leagues.v[1][2].name.s, leagues.v[2][2].name.s)

\* the calendar date a key of the date mapping states: the YYYY-MM-DD it
\* is, or starts with when it is a raw timestamp
KeyDate(key) == ParseIsoDate(key.s)

\* keys ascending as text, and the dates they state in chronological order
AscendingDates(mapping) ==
    /\ \A i \in 1..(Len(mapping) - 1) : StrLess(mapping[i][1].s, mapping[i + 1][1].s)
    /\ \A i, j \in 1..Len(mapping) :
          (i < j /\ KeyDate(mapping[i][1]).ok /\ KeyDate(mapping[j][1]).ok) =>
              DateLessEq(KeyDate(mapping[i][1]).date, KeyDate(mapping[j][1]).date)

\* C7: the mapping get_fixtures_by_date returns iterates its keys in
\* ascending text order, which is the chronological order of the dates the
\* keys state, for the normalized fixtures in the order get_fixtures
\* returned them and in every other order.
C7_DatesAscendingChronological ==
    /\ dates.st = "returned" => AscendingDates(dates.v)
    /\ dates # NotCalled =>
          \A p \in Orderings(Len(fixtures.v)) :
              LET r == GetFixturesByDate(Permuted(fixtures.v, p))
              IN r.st = "returned" /\ AscendingDates(r.v)

\* the raw timestamp that did not parse came first in the input and its
\* key comes second in the mapping, behind the key of a parsed date
C7_Witness ==
    /\ dates.st = "returned" /\ Len(dates.v) = 2
    /\ fixtures.v[1].event_date_formatted = PyStr(TsTruncated)
    /\ dates.v[1][1] = PyStr(DateIso(Date(2024, 2, 28)))
    /\ dates.v[2][1] = PyStr(TsTruncated)

\* C8: get_fixtures_by_league and get_fixtures_by_date return a mapping
\* for every sequence get_fixtures can return, never raising, and an empty
\* mapping for the empty sequence.
C8_GroupingsNeverRaise ==
    /\ leagues.st # "raised"
    /\ dates.st # "raised"
    /\ (leagues.st = "returned" /\ fixtures.v = <<>>) => leagues.v = <<>>
    /\ (dates.st = "returned" /\ fixtures.v = <<>>) => dates.v = <<>>

\* C9: in the document save_fixtures_to_json produces, raw_data text that
\* encodes a JSON object appears as the decoded structure, and raw_data
\* text that is not valid JSON appears as the same text.
C9_RawDataDecodedOrKept ==
    document.st = "returned" =>
        \A k \in 1..Len(fixtures.v) :
            LET raw == fixtures.v[k].raw_data
                out == document.v[k].raw_data
            IN IsStr(raw) =>
                  LET r == JsonLoads(raw.s)
                  IN /\ (r.ok /\ r.v.t = "dict") => (out.t = "dict" /\ out = r.v)
                     /\ ~r.ok => out = raw

\* the document holds {"a": {"b": [1, -2]}, "c": null} decoded from its
\* text, and the text that is no JSON as it was
C9_Witness ==
    /\ document.st = "returned" /\ Len(document.v) = 2
    /\ \E k \in 1..2 :
          /\ fixtures.v[k].raw_data = PyStr(JsonNestedText)
          /\ document.v[k].raw_data =
                PyDict(<< <<PyStr(<<"a">>),
                            PyDict(<< <<PyStr(<<"b">>),
                                        PyList(<<PyInt(1), PyInt(-2)>>)>> >>)>>,
                          <<PyStr(<<"c">>), None>> >>)
    /\ \E k \in 1..2 :
          /\ fixtures.v[k].raw_data = PyStr(NotJsonText)
          /\ document.v[k].raw_data = PyStr(NotJsonText)

\* C10: save_fixtures_to_json never raises because of a raw_data value and
\* emits one entry per fixture, in input order, every field but raw_data
\* equal to the input's.
C10_SaveNeverRaises ==
    document.st # "not called" =>
        /\ document.st = "returned"
        /\ Len(document.v) = Len(fixtures.v)
        /\ \A k \in 1..Len(fixtures.v) :
              /\ DOMAIN document.v[k] = DOMAIN fixtures.v[k]
              /\ \A key \in DOMAIN fixtures.v[k] \ {"raw_data"} :
                    document.v[k][key] = fixtures.v[k][key]

C12_Scenario ==
    (/\ rows = ScenarioRows
     /\ {39, 61} \subseteq TARGET_LEAGUE_IDS /\ 99999 \notin TARGET_LEAGUE_IDS
     /\ fixtures # NotCalled) =>
        /\ fixtures.st = "returned"
        /\ Len(fixtures.v) = 2
        /\ fixtures.v[1].league_api_id = PyInt(39)
        /\ fixtures.v[1].event_date_formatted = PyStr(DateIso(Date(2024, 3, 1)))
        /\ fixtures.v[1].event_time_formatted = PyStr(<<"1", "5", ":", "0", "0">>)
        /\ fixtures.v[2].league_api_id = PyInt(61)
        /\ fixtures.v[2].event_time_formatted = PyStr(<<"0", "0", ":", "0", "0">>)

\* the loop has run on the three rows
C12_Witness ==
    /\ rows = ScenarioRows
    /\ {39, 61} \subseteq TARGET_LEAGUE_IDS /\ 99999 \notin TARGET_LEAGUE_IDS
    /\ fixtures.st = "returned" /\ Len(fixtures.v) = 2

DerivedFields == {"event_date_formatted", "event_time_formatted", "event_datetime_local"}

InWindow(row) ==
    /\ IsStr(row.event_date)
    /\ ParseIsoDate(row.event_date.s).ok
    /\ DateLessEq(today, ParseIsoDate(row.event_date.s).date)
    /\ DateLessEq(ParseIsoDate(row.event_date.s).date, AddDays(today, days_ahead))

AcceptedStatus(row) ==
    IsStr(row.status_short) /\ row.status_short.s \in AcceptedStatuses

\* C13: whenever get_fixtures returns, every stored fixture with an accepted
\* status that the allow-list test lets through and whose event date lies
\* in [today, today + days_ahead], both end dates included, is among the
\* returned fixtures, and every returned fixture has its event date in that
\* range.
C13_WindowInclusive ==
    fixtures.st = "returned" =>
        /\ \A r \in db :
              (/\ AllowListTest(r.league_api_id, TARGET_LEAGUE_IDS) = "keep"
               /\ AcceptedStatus(r)
               /\ InWindow(r)) => Retained(r)
        /\ \A k \in 1..Len(fixtures.v) : InWindow(fixtures.v[k])

\* C17: in every returned fixture whose scheduling timestamp parses and
\* carries a UTC offset, event_date_formatted and event_time_formatted are
\* the calendar date and the time of that instant in UTC.
C17_FormattedInUtc ==
    fixtures.st = "returned" =>
        \A k \in 1..Len(fixtures.v) :
            LET f == fixtures.v[k]
                dt == FromIsoFormat(Replace(f.event_date.s, "Z", UtcSuffix))
                utc == AsTimezone(dt, 0)
            IN (dt.ok /\ dt.aware) =>
                  /\ f.event_date_formatted = PyStr(StrfDate(utc))
                  /\ f.event_time_formatted = PyStr(StrfTime(utc))

\* a name column that holds non-empty text
Present(v) == IsStr(v) /\ v.s # <<>>

\* the name the fallback chain of the claim gives
ChainName(row, tc, en, placeholder) ==
    IF Present(row[tc]) THEN row[tc]
    ELSE IF Present(row[en]) THEN row[en]
    ELSE PyStr(placeholder)

\* C18: in every returned fixture each of the three display names is the
\* localized name of its row when that is present and non-empty, else the
\* English name when that is present and non-empty, else the placeholder of
\* the role, the three placeholders being distinct.
C18_NameFallbackChain ==
    /\ Cardinality({UnknownLeague, UnknownHome, UnknownAway}) = 3
    /\ fixtures.st = "returned" =>
          \A k \in 1..Len(fixtures.v) : \A i \in 1..Len(rows) :
              rows[i].id = fixtures.v[k].id =>
                  LET f == fixtures.v[k]
                      r == rows[i]
                  IN /\ f.league_name_tc =
                          ChainName(r, "league_name_tc", "league_name_en", UnknownLeague)
                     /\ f.home_team_name_tc =
                          ChainName(r, "home_team_name_tc", "home_team_name_en", UnknownHome)
                     /\ f.away_team_name_tc =
                          ChainName(r, "away_team_name_tc", "away_team_name_en", UnknownAway)

\* the place in rows of the row a returned fixture was made from
RowOf(k) == CHOOSE i \in 1..Len(rows) : rows[i].id = fixtures.v[k].id

\* C19: the fixtures get_fixtures returns are a subsequence of the rows of
\* the query: each comes from a row of its own, in the order of the rows,
\* which is ascending event date and then ascending event timestamp.
C19_SubsequenceInQueryOrder ==
    fixtures.st = "returned" =>
        /\ \A k \in 1..Len(fixtures.v) :
              \E i \in 1..Len(rows) : rows[i].id = fixtures.v[k].id
        /\ \A k, l \in 1..Len(fixtures.v) :
              k < l =>
                 /\ RowOf(k) < RowOf(l)
                 /\ StrLessEq(fixtures.v[k].event_date.s, fixtures.v[l].event_date.s)
                 /\ fixtures.v[k].event_date = fixtures.v[l].event_date =>
                       \/ IsNone(fixtures.v[k].event_timestamp)
                       \/ /\ IsInt(fixtures.v[k].event_timestamp)
                          /\ IsInt(fixtures.v[l].event_timestamp)
                          /\ fixtures.v[k].event_timestamp.n <= fixtures.v[l].event_timestamp.n

\* two fixtures of different event dates have been returned
C19_Witness ==
    /\ fixtures.st = "returned" /\ Len(fixtures.v) = 2 /\ Len(rows) = 2
    /\ StrLess(fixtures.v[1].event_date.s, fixtures.v[2].event_date.s)

\* a group of the league mapping is made of the fixtures of fs with its
\* identifier, in their order, and named after the first of them
LeagueGroupsFrom(mapping, fs) ==
    \A g \in 1..Len(mapping) :
        LET key == mapping[g][1]
            sub == SelectSeq(fs, LAMBDA f : f.league_api_id = key)
        IN /\ mapping[g][2].id = key
           /\ mapping[g][2].fixtures = sub
           /\ sub # <<>>
           /\ mapping[g][2].name = sub[1].league_name_tc
           /\ mapping[g][2].country = sub[1].league_country

\* a group of the date mapping is made of the fixtures of fs with its key
DateGroupsFrom(mapping, fs) ==
    \A g \in 1..Len(mapping) :
        /\ mapping[g][2] # <<>>
        /\ mapping[g][2] =
              SelectSeq(fs, LAMBDA f : f.event_date_formatted = mapping[g][1])

\* C20: each group get_fixtures_by_league returns has the name and country
\* of the first input fixture with its identifier and holds exactly the
\* input fixtures with that identifier in input order; each group
\* get_fixtures_by_date returns holds exactly the input fixtures with its
\* date key in input order; for the fixtures in the order get_fixtures
\* returned them and in every other order.
C20_GroupsAreInputSubsequences ==
    /\ leagues.st = "returned" => LeagueGroupsFrom(leagues.v, fixtures.v)
    /\ dates.st = "returned" => DateGroupsFrom(dates.v, fixtures.v)
    /\ leagues # NotCalled =>
          \A p \in Orderings(Len(fixtures.v)) :
              LET fs == Permuted(fixtures.v, p)
                  byleague == GetFixturesByLeague(fs)
              IN byleague.st = "returned" => LeagueGroupsFrom(byleague.v, fs)
    /\ dates # NotCalled =>
          \A p \in Orderings(Len(fixtures.v)) :
              LET fs == Permuted(fixtures.v, p)
                  bydate == GetFixturesByDate(fs)
              IN bydate.st = "returned" => DateGroupsFrom(bydate.v, fs)

\* a league group of two fixtures whose display names differ carries the
\* name of the first, and a date group holds two fixtures
C20_Witness ==
    /\ leagues.st = "returned" /\ Len(leagues.v) = 1
    /\ Len(leagues.v[1][2].fixtures) = 2
    /\ fixtures.v[1].league_name_tc # fixtures.v[2].league_name_tc
    /\ leagues.v[1][2].name = fixtures.v[1].league_name_tc
    /\ dates.st = "returned" /\ Len(dates.v) = 1 /\ Len(dates.v[1][2]) = 2

\* C14: the import of db_reader never ends with an exception of the
\* allow-list load: whatever is wrong with league_manager, the allow-list is
\* the built-in set and the program is ready for the query.
C14_AllowListLoadNeverRaises ==
    pc # "import" =>
        /\ pc = "ready"
        /\ import_error # "none" => TARGET_LEAGUE_IDS = DefaultLeagueIds

\* C15: when fixtures.db cannot be located or opened, get_fixtures raises
\* and returns no list, and generate_all ends with that exception before
\* it has written any file.
C15_NoStorageNoOutput ==
    storage # "ok" =>
        /\ fixtures # NotCalled => fixtures.st = "raised"
        /\ site # NotCalled => (site.exc # "none" /\ site.written = <<>>)

\* generate_all has run without fixtures.db
C15_Witness ==
    /\ storage = "missing"
    /\ site # NotCalled
    /\ site.exc = "FileNotFoundError"

\* the fixtures generate_all passed to its generators (line 884)
GeneratedFrom == Normalize(rows, TARGET_LEAGUE_IDS, local_utcoffset)

Wrote(artifact) == \E i \in 1..Len(site.written) : site.written[i] = artifact

RECURSIVE SumOfCounts(_)
SumOfCounts(entries) ==
    IF entries = <<>> THEN 0 ELSE Head(entries).count + SumOfCounts(Tail(entries))

\* the counts of the four documents agree with their data
CountsAgree(api, n_league_groups, n_date_groups) ==
    /\ api.fixtures.count = Len(api.fixtures.data)
    /\ api.leagues.count = Len(api.leagues.data)
    /\ api.dates.count = Len(api.dates.data)
    /\ SumOfCounts(api.stats.leagues) = api.stats.total_fixtures
    /\ api.stats.total_fixtures = Len(api.fixtures.data)
    /\ api.stats.total_leagues = n_league_groups
    /\ api.stats.total_dates = n_date_groups
    /\ Len(api.stats.leagues) = n_league_groups

\* C21: in the documents generate_json_api has written, count is the number
\* of top-level entries of data in fixtures.json, leagues.json and
\* dates.json, and in stats.json the counts of the competitions add up to
\* total_fixtures, total_leagues is the number of competition groups and
\* total_dates the number of date groups.
C21_CountsAgreeWithData ==
    (site # NotCalled /\ Wrote(ApiStats)) =>
        CountsAgree(JsonApiDocuments(GeneratedFrom.v),
                    Len(GetFixturesByLeague(GeneratedFrom.v).v),
                    Len(GetFixturesByDate(GeneratedFrom.v).v))

\* the documents of two fixtures of one competition on one date
C21_Witness ==
    /\ site # NotCalled /\ Wrote(ApiStats)
    /\ Len(GeneratedFrom.v) = 2
    /\ Len(GetFixturesByLeague(GeneratedFrom.v).v) = 1
    /\ Len(GetFixturesByDate(GeneratedFrom.v).v) = 1

\* the paths of the league pages a run has written
LeaguePagePaths ==
    {site.written[i] : i \in {j \in 1..Len(site.written) :
                                  site.written[j].file = "leagues/.html"}}

\* C23: once generate_league_pages has returned, the paths of the pages it
\* wrote are as many as the competition groups: no two groups share a path.
C23_OnePagePerGroup ==
    (site # NotCalled /\ Wrote(ApiFixtures)) =>
        Cardinality(LeaguePagePaths) = Len(GetFixturesByLeague(GeneratedFrom.v).v)

\* the place of an artifact in the order of lines 885-891 and 237-285
ArtifactRank(artifact) ==
    CASE artifact = IndexPage -> 1
      [] artifact.file = "leagues/.html" -> 2
      [] artifact = ApiFixtures -> 3
      [] artifact = ApiLeagues -> 4
      [] artifact = ApiDates -> 5
      [] artifact = ApiStats -> 6
      [] artifact = StyleSheet -> 7
      [] artifact = Script -> 8

\* written follows the order index page, league pages, JSON documents, CSS,
\* JS: only league pages come more than once, and a file is written only
\* after every kind of file before it
InStrictSequence(written) ==
    /\ \A i, j \in 1..Len(written) :
          i < j => /\ ArtifactRank(written[i]) <= ArtifactRank(written[j])
                   /\ ArtifactRank(written[i]) = ArtifactRank(written[j])
                         => ArtifactRank(written[i]) = 2
    /\ \A i \in 1..Len(written) :
          \A r \in (1..(ArtifactRank(written[i]) - 1)) \ {2} :
              \E j \in 1..(i - 1) : ArtifactRank(written[j]) = r

\* the league pages written, one for one write
LeaguePagesWritten(written) ==
    Cardinality({i \in 1..Len(written) : ArtifactRank(written[i]) = 2})

\* C22: a run of generate_all has executed the query once (not at all when
\* fixtures.db cannot be used), and what it has written follows the order
\* index page, league pages, JSON documents, CSS, JS with nothing left out
\* before the last file: a run that returns has written them all, a run
\* that an exception ended has written nothing after the point of failure
\* and has kept what it wrote before.
C22_OneQueryThenStrictSequence ==
    site # NotCalled =>
        /\ queries = (IF storage = "ok" THEN 1 ELSE 0)
        /\ InStrictSequence(site.written)
        /\ Wrote(ApiFixtures) =>
              LeaguePagesWritten(site.written) = Len(GetFixturesByLeague(GeneratedFrom.v).v)
        /\ site.exc = "none" <=> Wrote(Script)
        /\ site.exc # "none" => ~Wrote(StyleSheet)

\* json.dump of fixtures.json has failed after the index page and a league
\* page were written
C22_Witness ==
    /\ site # NotCalled
    /\ queries = 1
    /\ site.exc = "TypeError"
    /\ site.written = <<IndexPage, LeaguePage(<<"B">>), ApiFixtures>>

====
